---- MODULE Spec2Model ----
(***************************************************************************)
(* Model of min_analysis_scripts/batch_local_velocity.py: the batch script  *)
(* that writes a CSV header, then for every tif stack under the input path  *)
(* determines a halfspan, calls local_velocity_analysis, saves the figure   *)
(* and appends one CSV row per velocity observation.                        *)
(*                                                                          *)
(* The numerics behind get_auto_halfspan and local_velocity_analysis live   *)
(* in min_analysis_tools, outside the script; they are modelled from the    *)
(* written specification as deterministic functions of the stack.           *)
(***************************************************************************)
EXTENDS Integers, Sequences, FiniteSets, TLC

\* ---------------------------------------------------------------- bounds
MaxStacks == 2     \* at most this many tif files under inpath
MaxCrests == 2     \* at most this many crest candidates per stack

\* ------------------------------------------------------ program constants
None == -1                  \* Python's None for an optional number
Unbound == -2               \* a name that no statement has assigned yet
frames_to_analyse == 10
kernel_size_general == 20
kernel_size_flow == 50

\* Values a user may give to the optional settings (line 32, 33, 37).
\* They are chosen so that nmperpix / (60 / frpermin) is a whole number.
NmPerPixValues == {None, 6}
FrPerMinValues == {None, 30}
HalfspanValues == {None, 5}

\* ------------------------------------------------------------- the input
\* A decoded stack: its number of frames and, for every crest candidate the
\* analysis meets (frame by frame, in scan order), whether the trace of the
\* next frame stays inside the frame (TRUE) or leaves it (FALSE).
RECURSIVE SeqsUpTo(_, _)
SeqsUpTo(S, n) ==
    IF n = 0 THEN {<<>>}
    ELSE LET shorter == SeqsUpTo(S, n - 1)
         IN  shorter \cup {Append(s, x) : s \in {t \in shorter : Len(t) = n - 1}, x \in S}

Stacks ==
    {[frames |-> frames_to_analyse, crests |-> c] : c \in SeqsUpTo(BOOLEAN, MaxCrests)}
    \cup {[frames |-> frames_to_analyse - 1, crests |-> <<>>]}

\* ------------------------------------------------------------- CSV cells
\* A cell of the file is a pair <<text, number>>: a string cell has number
\* 0, a numeric cell has the empty text.
Str(s) == <<s, 0>>
Num(v) == <<"", v>>

\* stack.stem of the i-th file found by glob (stems taken to be distinct).
StemOf(i) == <<"stack", i>>

VARIABLES
    halfspan, nmperpix, frpermin,   \* the settings of lines 32-37
    files,                          \* the tif files glob yields, in its order
    csv,                            \* rows of local_velocity_results.csv
    pngs,                           \* stems whose *_velocity_wheel.png exists
    pc,                             \* position of the script
    unit, factor,                   \* lines 56-61
    idx,                            \* number of stacks the loop has finished
    Min_st, stackname, halfspan_tmp,
    lva,                            \* local_velocity_analysis in progress
    velocities, forward_wavevector_x, forward_wavevector_y,
    crests_x, crests_y, framenr, max_x1, max_y1, max_x2, max_y2,
    fig,                            \* open figures (by stem)
    n, csv_open,                    \* the writer loop of lines 128-146
    error,                          \* the exception that ended the script
    auto_calls, lva_calls,          \* stacks handed to the two library calls
    lva_args,                       \* arguments of the calls made, per stack
    rerun, prevCsv                  \* second run of the script, CSV of the first

config == <<halfspan, nmperpix, frpermin, files>>
results == <<velocities, forward_wavevector_x, forward_wavevector_y,
             crests_x, crests_y, framenr, max_x1, max_y1, max_x2, max_y2>>
vars == <<config, csv, pngs, pc, unit, factor, idx, Min_st, stackname,
          halfspan_tmp, lva, results, fig, n, csv_open, error,
          auto_calls, lva_calls, lva_args, rerun, prevCsv>>

\* ----------------------------------------------------- lines 55-75: header
Unit(nm, fr) ==
    IF nm # None /\ fr # None THEN "nm/s" ELSE "pixels/frame"

Factor_NoFrameRate(nm, fr) ==
    IF nm # None /\ fr # None THEN nm ELSE 1
Factor(nm, fr) ==
    IF nm # None /\ fr # None THEN nm \div (60 \div fr) ELSE 1

VelocityHeader(u) ==
    IF u = "nm/s" THEN "velocities (nm/s)" ELSE "velocities (pixels/frame)"

Header(u) ==
    << Str("filename"), Str(VelocityHeader(u)),
       Str("forward_wavevector_x"), Str("forward_wavevector_y"),
       Str("crests_x (pixel position)"), Str("crests_y (pixel position)"),
       Str("frame_nr"),
       Str("trace_max_1 (0.25*pixels)"), Str("intensity_max_1"),
       Str("trace_max_2 (0.25*pixels)"), Str("intensity_max_2") >>

\* open(csv_file, "w"): the file is created empty or truncated.
OpenW_Keep(f) == f
OpenW(f) == <<>>

\* open(csv_file, "a"): the content is kept, writes go to the end.
OpenA_Truncate(f) == <<>>
OpenA(f) == f

WriteRow_AfterHeader(f, row) ==
    IF f = <<>> THEN <<row>> ELSE <<Head(f), row>> \o Tail(f)
WriteRow(f, row) == Append(f, row)

\* ------------------------------------- the library calls (from the spec)
\* get_auto_halfspan: an opaque function (stack, frame_count) -> int.  The
\* stand-in is a positive integer determined by the stack's content.
get_auto_halfspan(st, frames) == 1 + Len(st.crests)

\* ConfigurationError: non-positive kernel sizes or frames_to_analyse
\* exceeding the stack length (frames of one array share their dimensions).
ConfigurationError(st, frames, kgen, kflow) ==
    kgen <= 0 \/ kflow <= 0 \/ frames > st.frames

\* The value the analysis derives for field `field` of candidate k: a
\* stand-in that is different for every field and candidate.
Measure(field, k) == 100 * field + k

EmptyAcc ==
    [c |-> 0, velocities |-> <<>>, forward_wavevector_x |-> <<>>,
     forward_wavevector_y |-> <<>>, crests_x |-> <<>>, crests_y |-> <<>>,
     framenr |-> <<>>, max_x1 |-> <<>>, max_y1 |-> <<>>, max_x2 |-> <<>>,
     max_y2 |-> <<>>]

\* One crest of the orchestrator: a crest whose next-frame trace is invalid
\* is skipped, any other appends one entry to every output sequence.
ProcessCrest(acc, st, k) ==
    IF st.crests[k + 1]
    THEN [c |-> k + 1,
          velocities |-> Append(acc.velocities, k + 1),
          forward_wavevector_x |-> Append(acc.forward_wavevector_x, Measure(1, k)),
          forward_wavevector_y |-> Append(acc.forward_wavevector_y, Measure(2, k)),
          crests_x |-> Append(acc.crests_x, Measure(3, k)),
          crests_y |-> Append(acc.crests_y, Measure(4, k)),
          framenr |-> Append(acc.framenr, Measure(5, k)),
          max_x1 |-> Append(acc.max_x1, Measure(6, k)),
          max_y1 |-> Append(acc.max_y1, Measure(7, k)),
          max_x2 |-> Append(acc.max_x2, Measure(8, k)),
          max_y2 |-> Append(acc.max_y2, Measure(9, k))]
    ELSE [acc EXCEPT !.c = k + 1]

\* ------------------------------------------------ lines 91-93: halfspan
DetermineHalfspan_Cached(cur, hs, st) ==
    IF hs = None /\ cur = Unbound THEN get_auto_halfspan(st, frames_to_analyse) ELSE cur
DetermineHalfspan(cur, hs, st) ==
    IF hs = None THEN get_auto_halfspan(st, frames_to_analyse) ELSE cur

\* ---------------------------------------------- lines 131-146: the rows
\* range(velocities.size), as 0-based indices
RowIndices_OneMore(vel) == 0 .. Len(vel)
RowIndices(vel) == 0 .. (Len(vel) - 1)

RowOf_Swapped(name, f, vel, fwx, fwy, cx, cy, fr, x1, y1, x2, y2, i) ==
    << name, Num(vel[i + 1] * f), Num(fwx[i + 1]), Num(fwy[i + 1]),
       Num(cx[i + 1]), Num(cy[i + 1]), Num(fr[i + 1]),
       Num(y1[i + 1]), Num(x1[i + 1]), Num(x2[i + 1]), Num(y2[i + 1]) >>
RowOf(name, f, vel, fwx, fwy, cx, cy, fr, x1, y1, x2, y2, i) ==
    << name, Num(vel[i + 1] * f), Num(fwx[i + 1]), Num(fwy[i + 1]),
       Num(cx[i + 1]), Num(cy[i + 1]), Num(fr[i + 1]),
       Num(x1[i + 1]), Num(y1[i + 1]), Num(x2[i + 1]), Num(y2[i + 1]) >>

Row(i) ==
    RowOf(stackname, factor, velocities, forward_wavevector_x,
          forward_wavevector_y, crests_x, crests_y, framenr,
          max_x1, max_y1, max_x2, max_y2, i)

\* Whether index i is defined in every sequence the row reads.
Indexable(i) ==
    \A s \in {forward_wavevector_x, forward_wavevector_y, crests_x, crests_y,
              framenr, max_x1, max_y1, max_x2, max_y2, velocities} : i < Len(s)

\* ------------------------------------------------------------------ Init
ProgramInit ==
    /\ pc = "header"
    /\ unit = "" /\ factor = 0
    /\ idx = 0
    /\ Min_st = [frames |-> 0, crests |-> <<>>]
    /\ stackname = StemOf(0)
    /\ halfspan_tmp = Unbound
    /\ lva = EmptyAcc
    /\ velocities = <<>> /\ forward_wavevector_x = <<>>
    /\ forward_wavevector_y = <<>> /\ crests_x = <<>> /\ crests_y = <<>>
    /\ framenr = <<>> /\ max_x1 = <<>> /\ max_y1 = <<>>
    /\ max_x2 = <<>> /\ max_y2 = <<>>
    /\ fig = {}
    /\ n = 0 /\ csv_open = FALSE
    /\ error = "none"
    /\ auto_calls = {} /\ lva_calls = {}
    /\ lva_args = <<>>

Init ==
    /\ halfspan \in HalfspanValues
    /\ nmperpix \in NmPerPixValues
    /\ frpermin \in FrPerMinValues
    /\ files \in SeqsUpTo(Stacks, MaxStacks)
    /\ csv = <<>>
    /\ pngs = {}
    /\ rerun = FALSE
    /\ prevCsv = <<>>
    /\ ProgramInit

\* --------------------------------------------------------------- actions
Raise(e) ==
    /\ pc' = "crashed"
    /\ error' = e
    /\ csv_open' = FALSE

\* lines 53-79: unit, factor, header; the file is opened with mode "w"
WriteHeader ==
    /\ pc = "header"
    /\ unit' = Unit(nmperpix, frpermin)
    /\ factor' = Factor(nmperpix, frpermin)
    /\ csv' = WriteRow(OpenW(csv), Header(Unit(nmperpix, frpermin)))
    /\ pc' = "loop"
    /\ UNCHANGED <<config, pngs, idx, Min_st, stackname, halfspan_tmp, lva,
                   results, fig, n, csv_open, error, auto_calls, lva_calls,
                   lva_args, rerun, prevCsv>>

\* lines 84-89: the next file of the glob is loaded
LoadStack ==
    /\ pc = "loop"
    /\ idx < Len(files)
    /\ Min_st' = files[idx + 1]
    /\ stackname' = StemOf(idx + 1)
    /\ pc' = "halfspan"
    /\ UNCHANGED <<config, csv, pngs, unit, factor, idx, halfspan_tmp, lva,
                   results, fig, n, csv_open, error, auto_calls, lva_calls,
                   lva_args, rerun, prevCsv>>

\* line 84: the glob is exhausted, the script ends
Finish ==
    /\ pc = "loop"
    /\ idx = Len(files)
    /\ pc' = "done"
    /\ UNCHANGED <<config, csv, pngs, unit, factor, idx, Min_st, stackname,
                   halfspan_tmp, lva, results, fig, n, csv_open, error,
                   auto_calls, lva_calls, lva_args, rerun, prevCsv>>

\* lines 91-93
Halfspan ==
    /\ pc = "halfspan"
    /\ halfspan_tmp' = DetermineHalfspan(halfspan_tmp, halfspan, Min_st)
    /\ auto_calls' = IF halfspan = None THEN auto_calls \cup {idx + 1} ELSE auto_calls
    /\ pc' = "call"
    /\ UNCHANGED <<config, csv, pngs, unit, factor, idx, Min_st, stackname,
                   lva, results, fig, n, csv_open, error, lva_calls,
                   lva_args, rerun, prevCsv>>

\* lines 95-122: the arguments are evaluated and the analysis is entered
CallAnalysis ==
    /\ pc = "call"
    /\ IF halfspan_tmp = Unbound
       THEN /\ Raise("NameError")
            /\ UNCHANGED <<lva, lva_calls, lva_args>>
       ELSE /\ lva_calls' = lva_calls \cup {idx + 1}
            /\ lva_args' = Append(lva_args, <<Min_st, frames_to_analyse, halfspan_tmp>>)
            /\ IF ConfigurationError(Min_st, frames_to_analyse,
                                     kernel_size_general, kernel_size_flow)
               THEN /\ Raise("ConfigurationError")
                    /\ UNCHANGED lva
               ELSE /\ lva' = EmptyAcc
                    /\ pc' = "lva"
                    /\ UNCHANGED <<error, csv_open>>
    /\ UNCHANGED <<config, csv, pngs, unit, factor, idx, Min_st, stackname,
                   halfspan_tmp, results, fig, n, auto_calls, rerun, prevCsv>>

\* inside local_velocity_analysis: the next crest candidate
AnalyseCrest ==
    /\ pc = "lva"
    /\ lva.c < Len(Min_st.crests)
    /\ lva' = ProcessCrest(lva, Min_st, lva.c)
    /\ UNCHANGED <<config, csv, pngs, pc, unit, factor, idx, Min_st, stackname,
                   halfspan_tmp, results, fig, n, csv_open, error,
                   auto_calls, lva_calls, lva_args, rerun, prevCsv>>

\* lines 95-110: the analysis returns and its result is unpacked
ReturnAnalysis ==
    /\ pc = "lva"
    /\ lva.c = Len(Min_st.crests)
    /\ velocities' = lva.velocities
    /\ forward_wavevector_x' = lva.forward_wavevector_x
    /\ forward_wavevector_y' = lva.forward_wavevector_y
    /\ crests_x' = lva.crests_x
    /\ crests_y' = lva.crests_y
    /\ framenr' = lva.framenr
    /\ max_x1' = lva.max_x1
    /\ max_y1' = lva.max_y1
    /\ max_x2' = lva.max_x2
    /\ max_y2' = lva.max_y2
    /\ fig' = fig \cup {stackname}
    /\ pc' = "savefig"
    /\ UNCHANGED <<config, csv, pngs, unit, factor, idx, Min_st, stackname,
                   halfspan_tmp, lva, n, csv_open, error, auto_calls,
                   lva_calls, lva_args, rerun, prevCsv>>

\* lines 123-124
SaveFig ==
    /\ pc = "savefig"
    /\ pngs' = pngs \cup {stackname}
    /\ pc' = "closefig"
    /\ UNCHANGED <<config, csv, unit, factor, idx, Min_st, stackname,
                   halfspan_tmp, lva, results, fig, n, csv_open, error,
                   auto_calls, lva_calls, lva_args, rerun, prevCsv>>

\* line 125
CloseFig ==
    /\ pc = "closefig"
    /\ fig' = fig \ {stackname}
    /\ pc' = "opencsv"
    /\ UNCHANGED <<config, csv, pngs, unit, factor, idx, Min_st, stackname,
                   halfspan_tmp, lva, results, n, csv_open, error,
                   auto_calls, lva_calls, lva_args, rerun, prevCsv>>

\* lines 128-130: the file is opened with mode "a"
OpenCsv ==
    /\ pc = "opencsv"
    /\ csv' = OpenA(csv)
    /\ csv_open' = TRUE
    /\ n' = 0
    /\ pc' = "rows"
    /\ UNCHANGED <<config, pngs, unit, factor, idx, Min_st, stackname,
                   halfspan_tmp, lva, results, fig, error, auto_calls,
                   lva_calls, lva_args, rerun, prevCsv>>

\* lines 131-146: one pass of the writer loop
WriteDataRow ==
    /\ pc = "rows"
    /\ n \in RowIndices(velocities)
    /\ IF Indexable(n)
       THEN /\ csv' = WriteRow(csv, Row(n))
            /\ n' = n + 1
            /\ UNCHANGED <<pc, error, csv_open>>
       ELSE /\ Raise("IndexError")
            /\ UNCHANGED <<csv, n>>
    /\ UNCHANGED <<config, pngs, unit, factor, idx, Min_st, stackname,
                   halfspan_tmp, lva, results, fig, auto_calls, lva_calls,
                   lva_args, rerun, prevCsv>>

\* line 128 (end of the with block): the range is exhausted, the file closes
CloseCsv ==
    /\ pc = "rows"
    /\ n \notin RowIndices(velocities)
    /\ csv_open' = FALSE
    /\ pc' = "print"
    /\ UNCHANGED <<config, csv, pngs, unit, factor, idx, Min_st, stackname,
                   halfspan_tmp, lva, results, fig, n, error, auto_calls,
                   lva_calls, lva_args, rerun, prevCsv>>

\* lines 147-148: the median is printed (no state changes), next iteration
PrintMedian ==
    /\ pc = "print"
    /\ idx' = idx + 1
    /\ pc' = "loop"
    /\ UNCHANGED <<config, csv, pngs, unit, factor, Min_st, stackname,
                   halfspan_tmp, lva, results, fig, n, csv_open, error,
                   auto_calls, lva_calls, lva_args, rerun, prevCsv>>

\* The script is started a second time on the same input and settings: a
\* new process, the files on disk are what the first run left.
Rerun ==
    /\ pc \in {"done", "crashed"}
    /\ ~rerun
    /\ rerun' = TRUE
    /\ prevCsv' = csv
    /\ pc' = "header"
    /\ unit' = "" /\ factor' = 0
    /\ idx' = 0
    /\ Min_st' = [frames |-> 0, crests |-> <<>>]
    /\ stackname' = StemOf(0)
    /\ halfspan_tmp' = Unbound
    /\ lva' = EmptyAcc
    /\ velocities' = <<>> /\ forward_wavevector_x' = <<>>
    /\ forward_wavevector_y' = <<>> /\ crests_x' = <<>> /\ crests_y' = <<>>
    /\ framenr' = <<>> /\ max_x1' = <<>> /\ max_y1' = <<>>
    /\ max_x2' = <<>> /\ max_y2' = <<>>
    /\ fig' = {}
    /\ n' = 0 /\ csv_open' = FALSE
    /\ error' = "none"
    /\ auto_calls' = {} /\ lva_calls' = {}
    /\ lva_args' = <<>>
    /\ UNCHANGED <<config, csv, pngs>>

Next ==
    \/ WriteHeader
    \/ LoadStack
    \/ Finish
    \/ Halfspan
    \/ CallAnalysis
    \/ AnalyseCrest
    \/ ReturnAnalysis
    \/ SaveFig
    \/ CloseFig
    \/ OpenCsv
    \/ WriteDataRow
    \/ CloseCsv
    \/ PrintMedian

\* One run of the script.
Spec == Init /\ [][Next]_vars

\* The script run, and run once more after it has ended.  The unit settings
\* take no part in the control flow; they are both set or both left None.
InitTwice == Init /\ (nmperpix = None <=> frpermin = None)
NextTwice == Next \/ Rerun
SpecTwice == InitTwice /\ [][NextTwice]_vars

\* ------------------------------------------------------------ properties
\* Helpers of the properties below.
InStack == pc \in {"halfspan", "call", "lva", "savefig", "closefig",
                   "opencsv", "rows", "print"}
DataRows == IF csv = <<>> THEN <<>> ELSE Tail(csv)
IsRowOf(row, name) == row[1] = name
RowsOf(name) == SelectSeq(DataRows, LAMBDA row : IsRowOf(row, name))
Valid(st) == {k \in 1 .. Len(st.crests) : st.crests[k]}
BothSet == nmperpix # None /\ frpermin # None

\* C1: whenever the arguments of local_velocity_analysis are evaluated, the
\* halfspan handed over is the user's halfspan when one is configured and
\* otherwise get_auto_halfspan of the stack at hand; the name is never
\* unbound there.
C1_HalfspanArgument ==
    /\ pc = "call" =>
          halfspan_tmp = (IF halfspan # None THEN halfspan
                          ELSE get_auto_halfspan(Min_st, frames_to_analyse))
    /\ error # "NameError"

\* C2: once the rows of a stack are written, the file holds as many rows of
\* that stack as velocities has entries, and row m holds the stack name and
\* the m-th entry of velocities (scaled), forward_wavevector_x,
\* forward_wavevector_y, crests_x, crests_y, framenr, max_x1, max_y1,
\* max_x2, max_y2, in that order.
C2_RowsMatchResult ==
    pc = "print" =>
        LET rows == RowsOf(stackname)
        IN  /\ Len(rows) = Len(velocities)
            /\ \A m \in 1 .. Len(rows) :
                  rows[m] = << stackname,
                               Num(velocities[m] * factor),
                               Num(forward_wavevector_x[m]),
                               Num(forward_wavevector_y[m]),
                               Num(crests_x[m]), Num(crests_y[m]),
                               Num(framenr[m]),
                               Num(max_x1[m]), Num(max_y1[m]),
                               Num(max_x2[m]), Num(max_y2[m]) >>
C2_Witness ==
    pc = "print" /\ Len(velocities) = 2 /\ Len(RowsOf(stackname)) = 2

\* C3: the data rows are ordered by stack (in the order of iteration) and,
\* within a stack, by strictly increasing observation; no row is repeated
\* and the rows of two stacks are not interleaved.
C3_RowOrder ==
    \A i, j \in 1 .. Len(DataRows) :
        i < j =>
            LET a == DataRows[i]
                b == DataRows[j]
            IN  \/ a[1][2] < b[1][2]
                \/ a[1][2] = b[1][2] /\ a[3][2] < b[3][2]
C3_Witness ==
    /\ pc = "done"
    /\ Len(DataRows) >= 3
    /\ DataRows[1][1] = StemOf(1)
    /\ DataRows[2][1] = StemOf(1)
    /\ DataRows[3][1] = StemOf(2)

\* C4: the output sequences of the analysis have one common length, the
\* number of crests that were not skipped, after every crest; the sequences
\* the script unpacks have one common length too, and the writer never
\* reads an index that one of them lacks.
C4_IndexAligned ==
    /\ pc = "lva" =>
          \A s \in {lva.velocities, lva.forward_wavevector_x,
                    lva.forward_wavevector_y, lva.crests_x, lva.crests_y,
                    lva.framenr, lva.max_x1, lva.max_y1, lva.max_x2,
                    lva.max_y2} :
              Len(s) = Cardinality({k \in Valid(Min_st) : k <= lva.c})
    /\ \A s \in {forward_wavevector_x, forward_wavevector_y, crests_x,
                 crests_y, framenr, max_x1, max_y1, max_x2, max_y2} :
          Len(s) = Len(velocities)
    /\ pc = "rows" => n <= Len(velocities)
    /\ error # "IndexError"
C4_Witness ==
    /\ pc = "rows"
    /\ n = 1
    /\ Len(velocities) = 1
    /\ Len(Min_st.crests) = 2

\* C5: when a configuration error stops one stack, every other stack under
\* the input path (with a valid configuration) has its PNG saved and its
\* rows in the CSV.
C5_OtherStacksUnaffected ==
    error = "ConfigurationError" =>
        \A j \in 1 .. Len(files) :
            (j # idx + 1 /\ ~ConfigurationError(files[j], frames_to_analyse,
                                 kernel_size_general, kernel_size_flow))
            => /\ StemOf(j) \in pngs
               /\ Len(RowsOf(StemOf(j))) = Cardinality(Valid(files[j]))

\* C6: a configuration error of a stack is raised before get_auto_halfspan
\* and local_velocity_analysis are called for it, and the stack leaves no
\* PNG and no CSV row.
C6_ErrorBeforeProcessing ==
    error = "ConfigurationError" =>
        /\ (idx + 1) \notin auto_calls
        /\ (idx + 1) \notin lva_calls
        /\ stackname \notin pngs
        /\ RowsOf(stackname) = <<>>

\* C7: while a stack is being handled, every stack before it has been
\* analysed, has its PNG saved, its figure closed and all its rows in the
\* closed CSV; and the arguments of each analysis call are those of its own
\* stack: the stack, frames_to_analyse and get_auto_halfspan of that stack.
C7_OneStackAtATime ==
    /\ InStack =>
          \A j \in 1 .. idx :
              /\ j \in lva_calls
              /\ StemOf(j) \in pngs
              /\ StemOf(j) \notin fig
              /\ Len(RowsOf(StemOf(j))) = Cardinality(Valid(files[j]))
    /\ (pc # "rows") => ~csv_open
    /\ (pc \in {"loop", "halfspan", "call", "lva"}) => fig = {}
    /\ \A j \in 1 .. Len(lva_args) :
          lva_args[j] = << files[j], frames_to_analyse,
                           get_auto_halfspan(files[j], frames_to_analyse) >>
C7_Witness ==
    /\ pc = "lva"
    /\ idx = 1
    /\ Len(lva_args) = 2
    /\ lva_args[1][3] # lva_args[2][3]
    /\ Len(RowsOf(StemOf(1))) = 2

\* C8: a second run on the same input and settings leaves the CSV that the
\* first run left.
C8_SecondRunSameCsv ==
    (rerun /\ pc \in {"done", "crashed"}) => csv = prevCsv
C8_Witness ==
    rerun /\ pc = "done" /\ Len(csv) >= 4 /\ csv = prevCsv

\* C9: the header names nm/s exactly when nmperpix and frpermin are both
\* set, the velocity column holds the velocity times nmperpix/(60/frpermin)
\* in that case and the plain velocity otherwise, and the other columns
\* hold the values of the analysis as they are.
C9_UnitMatchesScaling ==
    pc # "header" =>
        /\ csv[1][2] = Str(IF BothSet THEN "velocities (nm/s)"
                           ELSE "velocities (pixels/frame)")
        /\ \A i \in 1 .. Len(DataRows) :
              LET row == DataRows[i]
                  k == row[3][2] - Measure(1, 0)
              IN  /\ row[2] = Num(IF BothSet
                                  THEN ((k + 1) * nmperpix) \div (60 \div frpermin)
                                  ELSE k + 1)
                  /\ \A col \in 3 .. 11 : row[col] = Num(Measure(col - 2, k))
C9_Witness ==
    /\ pc = "done"
    /\ BothSet
    /\ Len(DataRows) >= 2
    /\ DataRows[2][2] # Num(DataRows[2][3][2] - Measure(1, 0) + 1)

\* C10: from the header write on, the file holds exactly one header row,
\* and it is the first row; a run that meets no observation ends with the
\* header alone.
C10_OneHeaderFirst ==
    pc # "header" =>
        /\ Len(csv) >= 1
        /\ csv[1] = Header(unit)
        /\ \A i \in 2 .. Len(csv) : csv[i][1] # Str("filename")
        /\ (pc = "done" /\ \A j \in 1 .. Len(files) : Valid(files[j]) = {})
              => csv = <<Header(unit)>>
C10_Witness ==
    /\ pc = "done"
    /\ Len(files) = 2
    /\ lva_calls = {1, 2}
    /\ Len(csv) = 1

====
